---- MODULE Spec2Model ----
(***************************************************************************)
(* Model of the Juno AST core (juno_ast/src/lib.rs): the arena heap of     *)
(* nodes and list cells, NodeList construction and iteration, the mutating *)
(* visit of each child shape (list, required child, optional child, root), *)
(* the per-thread GCLock discipline and node references used as map keys.  *)
(*                                                                         *)
(* Addresses are indices into the heap sequences: node i is nodes[i], list *)
(* cell i is cells[i]; NULL is the null cell pointer.  Option<T> is a      *)
(* sequence of length at most one.                                         *)
(***************************************************************************)
EXTENDS Integers, Sequences, FiniteSets, TLC

VARIABLES
    nodes,      \* arena: the allocated nodes, in allocation order
    cells,      \* arena: the allocated NodeListElements, in allocation order
    list,       \* the NodeList under test: how it was made and its head
    yielded,    \* the sequences produced by complete iterations of list
    last,       \* the last visit call: receiver, visitor outcomes, result
    refs,       \* the NodePtr values the program holds, with their origin
    map,        \* HashMap<NodePtr, value>: its entries, in insertion order
    inUse,      \* per thread: the GCLock-in-use flag
    held,       \* per thread: number of GCLocks alive
    status,     \* per thread: "running" or "panicked"
    acquired    \* per thread: number of GCLock::new calls made

vars == <<nodes, cells, list, yielded, last, refs, map, inUse, held, status, acquired>>

guardVars == <<inUse, held, status, acquired>>

----------------------------------------------------------------------------
(* Bounds of the model. *)

\* nodes built by builder calls in the list specification
MaxListNodes == 2
\* length of the sequence handed to NodeList::from_iter
MaxLen == 3
\* length of the vector inside TransformResult::Expanded
MaxExpand == 2
\* complete iterations of one list handle
MaxIter == 2
\* nodes built by builder calls in the child specification
MaxNodes == 3
\* nodes built by builder calls in the reference specification
MaxRefNodes == 2
\* NodePtr values held at once in the reference specification
MaxRefs == 3
\* GCLock::new calls per thread
MaxAcquire == 2

----------------------------------------------------------------------------
(* Option and TransformResult values. *)

NULL == 0

None == <<>>
Some(x) == <<x>>

Unchanged == [tag |-> "Unchanged", val |-> <<>>]
Removed == [tag |-> "Removed", val |-> <<>>]
Changed(x) == [tag |-> "Changed", val |-> x]
Expanded(xs) == [tag |-> "Expanded", val |-> xs]

\* panic!(..): the call unwinds and returns nothing.
Panic(msg) == [tag |-> "Panic", val |-> msg]

\* a call that returns x, for the calls that do not return a TransformResult
Return(x) == [tag |-> "Return", val |-> x]

Path(parent, field) == [parent |-> parent, field |-> field]

NodeFields == {"body"}

----------------------------------------------------------------------------
(* Source ranges, templates and builders. *)

InvalidRange == [file |-> 0, start |-> 0, end |-> 0]

\* TemplateMetadata::default()
DefaultMetadata == [range |-> InvalidRange]

\* template::NumericLiteral { metadata, value }
NumericLiteral(metadata, value) ==
    [kind |-> "NumericLiteral", range |-> metadata.range, fields |-> <<value>>]

\* template::EmptyStatement { metadata }
EmptyStatement(metadata) ==
    [kind |-> "EmptyStatement", range |-> metadata.range, fields |-> <<>>]

\* builder::X::build_template(lock, template): one arena allocation; the
\* new node's address is returned.
BuildTemplate(ns, template) ==
    [nodes |-> Append(ns, template), node |-> Len(ns) + 1]

----------------------------------------------------------------------------
(* NodeList: construction, iteration, queries. *)

\* lock.append_list_element(prev, node): allocates one cell holding node,
\* linked after prev when prev is given; returns the new cell's address.
AppendListElement(cs, prev, node) ==
    LET new == Len(cs) + 1
        linked == IF prev = None
                  THEN cs
                  ELSE [cs EXCEPT ![prev[1]].next = new]
    IN [cells |-> Append(linked, [inner |-> node, next |-> NULL]), elem |-> new]

\* NodeList::new(lock): the lock is not used, nothing is allocated
NodeListNew(cs) == [cells |-> cs, head |-> NULL]

RECURSIVE FromIterRest(_, _, _)

\* the loop with prev_elem never advanced: every cell is linked after the
\* head
FromIterRestKeepPrev(cs, prev_elem, it) ==
    IF it = <<>>
    THEN cs
    ELSE LET a == AppendListElement(cs, Some(prev_elem), Head(it))
         IN FromIterRest(a.cells, prev_elem, Tail(it))

\* the `for next in it` loop of from_iter
FromIterRest(cs, prev_elem, it) ==
    IF it = <<>>
    THEN cs
    ELSE LET a == AppendListElement(cs, Some(prev_elem), Head(it))
         IN FromIterRest(a.cells, a.elem, Tail(it))

\* from_iter that walks `nodes` again from its first element after having
\* allocated the head for it
FromIterRevisitFirst(cs, ns) ==
    IF ns # <<>>
    THEN LET h == AppendListElement(cs, None, Head(ns))
         IN [cells |-> FromIterRest(h.cells, h.elem, ns), head |-> h.elem]
    ELSE NodeListNew(cs)

\* NodeList::from_iter(lock, nodes)
FromIter(cs, ns) ==
    IF ns # <<>>
    THEN LET h == AppendListElement(cs, None, Head(ns))
         IN [cells |-> FromIterRest(h.cells, h.elem, Tail(ns)), head |-> h.elem]
    ELSE NodeListNew(cs)

\* NodeList::iter
Iter(self) == [ptr |-> self.head]

\* NodeListIterator::next: None at the end, else the node and the advanced
\* iterator.
IterNext(cs, it) ==
    IF it.ptr = NULL
    THEN [item |-> None, it |-> it]
    ELSE [item |-> Some(cs[it.ptr].inner), it |-> [ptr |-> cs[it.ptr].next]]

RECURSIVE Drain(_, _)
\* exhausting an iterator: every item next() yields until None
Drain(cs, it) ==
    LET n == IterNext(cs, it)
    IN IF n.item = None THEN <<>> ELSE <<n.item[1]>> \o Drain(cs, n.it)

\* NodeList::is_empty
IsEmpty(self) == self.head = NULL

\* NodeList::len
ListLen(cs, self) == Len(Drain(cs, Iter(self)))

----------------------------------------------------------------------------
(* The visitor.  A VisitorMut is an arbitrary callback: the k-th call it  *)
(* receives returns outs[k], whatever node and path it is given.  Every   *)
(* call is logged with its arguments.                                     *)

Min(a, b) == IF a < b THEN a ELSE b

\* Iterator::take(n).collect()
Take(s, n) == SubSeq(s, 1, Min(n, Len(s)))

SeqsUpTo(S, k) == UNION {[1..m -> S] : m \in 0..k}

\* the run of len consecutive node addresses starting at address first
Window(first, len) == [x \in 1..len |-> first + x - 1]

\* the vectors a visitor returns inside Expanded: every run of at most
\* MaxExpand consecutively allocated nodes (the empty vector included)
Expansions(ns) ==
    {Window(first, len) : first \in 1..Len(ns),
                          len \in 0..Min(MaxExpand, Len(ns))}
        \cap SeqsUpTo(1..Len(ns), MaxExpand)

\* what a VisitorMut may return, given the nodes allocated so far
Outcomes(ns) ==
    {Unchanged, Removed}
        \cup {Changed(n) : n \in 1..Len(ns)}
        \cup {Expanded(s) : s \in Expansions(ns)}

\* the Path of a child field: the parent is the node built last
Paths(ns) == {Path(p, f) : p \in {Len(ns)} \ {0}, f \in NodeFields}

\* s names its nodes in allocation order: the nodes of the list
\* specification are built from one template and differ by address alone,
\* so every input sequence is one of these up to the choice of addresses
FirstUseOrdered(s) ==
    \A i \in 1..Len(s) : \A v \in 1..(s[i] - 1) : \E j \in 1..(i - 1) : s[j] = v

\* the sequences handed to NodeList::from_iter
Inputs(ns) == {s \in SeqsUpTo(1..Len(ns), MaxLen) : FirstUseOrdered(s)}

\* visitor.call(ctx, node, path): the log after the call
Call(calls, node, path) == Append(calls, [node |-> node, path |-> path])

----------------------------------------------------------------------------
(* <NodeList as NodeChild>::visit_child_mut *)

\* one arm of the match on the visitor's result for elem, in the fill loop
Push(result, elem, out) ==
    CASE out.tag = "Unchanged" -> Append(result, elem)
      [] out.tag = "Removed" -> result
      [] out.tag = "Changed" -> Append(result, out.val)
      [] out.tag = "Expanded" -> result \o out.val

\* the match on the first changed element: Unchanged is unreachable there
PushFirst(result, out) ==
    CASE out.tag = "Changed" -> Append(result, out.val)
      [] out.tag = "Expanded" -> result \o out.val
      [] out.tag = "Removed" -> result

RECURSIVE VisitEach(_, _, _, _)
\* <NodeList as NodeChild>::visit_child: `for child in self.iter()`
VisitEach(cs, it, path, calls) ==
    LET n == IterNext(cs, it)
    IN IF n.item = None
       THEN calls
       ELSE VisitEach(cs, n.it, path, Call(calls, n.item[1], Some(path)))

\* <NodeList as NodeChild>::visit_child
ListVisitChild(cs, self, path) == VisitEach(cs, Iter(self), path, <<>>)

RECURSIVE FillRest(_, _, _, _, _)

\* the fill loop copying the later elements through without visiting them
FillRestUnvisited(cs, it, outs, path, acc) ==
    [result |-> acc.result \o Drain(cs, it),
     index |-> acc.index + Len(Drain(cs, it)),
     calls |-> acc.calls]

\* `for elem in it.by_ref()`: visit and copy or splice every later element
FillRest(cs, it, outs, path, acc) ==
    LET n == IterNext(cs, it)
    IN IF n.item = None
       THEN acc
       ELSE LET elem == n.item[1]
                calls == Call(acc.calls, elem, Some(path))
                out == outs[Len(calls)]
            IN FillRest(cs, n.it, outs, path,
                        [result |-> Push(acc.result, elem, out),
                         index |-> acc.index + 1,
                         calls |-> calls])

RECURSIVE NthCell(_, _, _)
\* the address of the k-th cell of the chain starting at ptr
NthCell(cs, ptr, k) == IF k <= 1 THEN ptr ELSE NthCell(cs, cs[ptr].next, k - 1)

\* the rebuild that keeps the cells of the skipped prefix and relinks the
\* last of them to a new chain holding the rest
RebuildInPlace(cs, self, it, index, outs, path, calls, node) ==
    LET rest == FillRest(cs, it, outs, path,
                         [result |-> PushFirst(<<>>, node), index |-> index + 1,
                          calls |-> calls])
        built == FromIter(cs, rest.result)
    IN IF index = 0
       THEN [ret |-> Changed([head |-> built.head]),
             cells |-> built.cells,
             calls |-> rest.calls]
       ELSE [ret |-> Changed([head |-> self.head]),
             cells |-> [built.cells EXCEPT
                          ![NthCell(cs, self.head, index)].next = built.head],
             calls |-> rest.calls]

\* the rebuild with the skipped prefix taken one element too long
RebuildTakeOneMore(cs, self, it, index, outs, path, calls, node) ==
    LET skipped == Take(Drain(cs, Iter(self)), index + 1)
        first == PushFirst(skipped, node)
        rest == FillRest(cs, it, outs, path,
                         [result |-> first, index |-> index + 1, calls |-> calls])
        built == FromIter(cs, rest.result)
    IN [ret |-> Changed([head |-> built.head]),
        cells |-> built.cells,
        calls |-> rest.calls]

\* the body of the while loop after the first change was found
Rebuild(cs, self, it, index, outs, path, calls, node) ==
    LET skipped == Take(Drain(cs, Iter(self)), index)
        first == PushFirst(skipped, node)
        rest == FillRest(cs, it, outs, path,
                         [result |-> first, index |-> index + 1, calls |-> calls])
        built == FromIter(cs, rest.result)
    IN [ret |-> Changed([head |-> built.head]),
        cells |-> built.cells,
        calls |-> rest.calls]

RECURSIVE Scan(_, _, _, _, _, _, _)

\* the traversal without the no-copy path: always rebuilds the list
ScanAlwaysCopy(cs, self, it, index, outs, path, calls) ==
    LET rest == FillRest(cs, it, outs, path,
                         [result |-> <<>>, index |-> index, calls |-> calls])
        built == FromIter(cs, rest.result)
    IN [ret |-> Changed([head |-> built.head]),
        cells |-> built.cells,
        calls |-> rest.calls]

\* `while let Some(elem) = it.next()`: no copy while all are Unchanged
Scan(cs, self, it, index, outs, path, calls) ==
    LET n == IterNext(cs, it)
    IN IF n.item = None
       THEN [ret |-> Unchanged, cells |-> cs, calls |-> calls]
       ELSE LET elem == n.item[1]
                called == Call(calls, elem, Some(path))
                node == outs[Len(called)]
            IN IF node.tag = "Unchanged"
               THEN Scan(cs, self, n.it, index + 1, outs, path, called)
               ELSE Rebuild(cs, self, n.it, index, outs, path, called, node)

ListVisitChildMut(cs, self, outs, path) ==
    Scan(cs, self, Iter(self), 0, outs, path, <<>>)

----------------------------------------------------------------------------
(* Mutating visit of the single-child shapes and of the root.  out is what *)
(* the visitor returns for the one call it may receive.                    *)

\* the placeholder built with the child's whole range instead of its start
NodeVisitChildMutKeepEnd(ns, self, out, path) ==
    LET calls == Call(<<>>, self, Some(path))
    IN IF out.tag = "Removed"
       THEN LET b == BuildTemplate(ns, EmptyStatement(
                         [range |-> [file |-> ns[self].range.file,
                                     start |-> ns[self].range.start,
                                     end |-> ns[self].range.end]]))
            IN [ret |-> Changed(b.node), nodes |-> b.nodes, calls |-> calls]
       ELSE [ret |-> out, nodes |-> ns, calls |-> calls]

\* <&Node as NodeChild>::visit_child_mut
NodeVisitChildMut(ns, self, out, path) ==
    LET calls == Call(<<>>, self, Some(path))
    IN IF out.tag = "Removed"
       THEN LET b == BuildTemplate(ns, EmptyStatement(
                         [range |-> [file |-> ns[self].range.file,
                                     start |-> ns[self].range.start,
                                     end |-> ns[self].range.start]]))
            IN [ret |-> Changed(b.node), nodes |-> b.nodes, calls |-> calls]
       ELSE [ret |-> out, nodes |-> ns, calls |-> calls]

\* <&Option<&Node> as NodeChild>::visit_child_mut: inner.visit_child_mut is
\* the &Node implementation above
OptionRefVisitChildMut(ns, self, out, path) ==
    IF self = None
    THEN [ret |-> Unchanged, nodes |-> ns, calls |-> <<>>]
    ELSE LET inner == NodeVisitChildMut(ns, self[1], out, path)
             ret == CASE inner.ret.tag = "Unchanged" -> Unchanged
                      [] inner.ret.tag = "Removed" -> Changed(None)
                      [] inner.ret.tag = "Changed" -> Changed(Some(inner.ret.val))
                      [] inner.ret.tag = "Expanded" ->
                           Panic("Attempt to replace a single optional node with multiple")
         IN [ret |-> ret, nodes |-> inner.nodes, calls |-> inner.calls]

\* <Option<T> as NodeChild>::visit_child_mut with T = &Node
OptionVisitChildMut(ns, self, out, path) ==
    IF self = None
    THEN [ret |-> Unchanged, nodes |-> ns, calls |-> <<>>]
    ELSE LET inner == NodeVisitChildMut(ns, self[1], out, path)
             ret == CASE inner.ret.tag = "Unchanged" -> Unchanged
                      [] inner.ret.tag = "Removed" -> Changed(None)
                      [] inner.ret.tag = "Changed" -> Changed(Some(inner.ret.val))
                      [] inner.ret.tag = "Expanded" ->
                           Panic("Attempt to replace a single optional node with multiple")
         IN [ret |-> ret, nodes |-> inner.nodes, calls |-> inner.calls]

\* the root driver treating the root like a required child: a removed root
\* is returned unchanged
VisitMutKeepRemoved(ns, self, out, path) ==
    LET calls == Call(<<>>, self, path)
        ret == CASE out.tag = "Unchanged" -> Return(Some(self))
                 [] out.tag = "Removed" -> Return(Some(self))
                 [] out.tag = "Changed" -> Return(Some(out.val))
                 [] out.tag = "Expanded" ->
                      Panic("Attempt to replace a single node with multiple")
    IN [ret |-> ret, nodes |-> ns, calls |-> calls]

\* Node::visit_mut
VisitMut(ns, self, out, path) ==
    LET calls == Call(<<>>, self, path)
        ret == CASE out.tag = "Unchanged" -> Return(Some(self))
                 [] out.tag = "Removed" -> Return(None)
                 [] out.tag = "Changed" -> Return(Some(out.val))
                 [] out.tag = "Expanded" ->
                      Panic("Attempt to replace a single node with multiple")
    IN [ret |-> ret, nodes |-> ns, calls |-> calls]

----------------------------------------------------------------------------
(* Node references as values and as map keys. *)

\* NodePtr::from(node): the node's address
NodePtrFrom(node) == node

\* equality of the nodes' contents instead of their addresses
NodePtrEqByValue(ns, a, b) == ns[a] = ns[b]

\* <NodePtr as PartialEq>::eq
NodePtrEq(ns, a, b) == a = b

\* <NodePtr as Hash>::hash
NodePtrHash(ns, a) == a

\* the entries of m whose key hashes like k and equals k
MapFind(ns, m, k) ==
    {i \in DOMAIN m : /\ NodePtrHash(ns, m[i].key) = NodePtrHash(ns, k)
                      /\ NodePtrEq(ns, m[i].key, k)}

\* HashMap::insert(k, v)
MapInsert(ns, m, k, v) ==
    IF MapFind(ns, m, k) = {}
    THEN Append(m, [key |-> k, value |-> v])
    ELSE [i \in DOMAIN m |-> IF i \in MapFind(ns, m, k)
                             THEN [key |-> m[i].key, value |-> v]
                             ELSE m[i]]

\* HashMap::get(k)
MapGet(ns, m, k) ==
    IF MapFind(ns, m, k) = {}
    THEN None
    ELSE Some(m[CHOOSE i \in MapFind(ns, m, k) : TRUE].value)

----------------------------------------------------------------------------
(* The GCLock discipline: one lock alive per thread. *)

\* GCLock::new without the in-use check
GCLockNewUnchecked(in_use) == Return(TRUE)

\* GCLock::new on a thread whose in-use flag is in_use
GCLockNew(in_use) ==
    IF in_use
    THEN Panic("Attempt to create multiple GCLocks in a single thread")
    ELSE Return(TRUE)

----------------------------------------------------------------------------
(* Initial state: an empty arena, no list, no call made, no lock taken. *)

\* the record of the last call: its receiver, the outcomes the visitor
\* gave, the path it was given, what it returned, the visitor calls it
\* made, what it allocated and the part of the heap it could have changed
NoCall ==
    [op |-> "none", self |-> None, outs |-> <<>>, path |-> None,
     ret |-> [tag |-> "none", val |-> <<>>], calls |-> <<>>,
     newCells |-> 0, newNodes |-> 0, before |-> <<>>]

NoList == [made |-> "none", input |-> <<>>, handle |-> [head |-> NULL],
           newCells |-> 0]

Threads == {"t1", "t2", "t3"}

Init ==
    /\ nodes = <<>>
    /\ cells = <<>>
    /\ list = NoList
    /\ yielded = <<>>
    /\ last = NoCall
    /\ refs = <<>>
    /\ map = <<>>
    /\ inUse = [t \in Threads |-> FALSE]
    /\ held = [t \in Threads |-> 0]
    /\ status = [t \in Threads |-> "running"]
    /\ acquired = [t \in Threads |-> 0]

----------------------------------------------------------------------------
(* The list specification: builder calls, one list made by NodeList::new  *)
(* or NodeList::from_iter, then complete iterations of it or one mutating *)
(* visit of it.                                                           *)

\* a builder call before the list is made
ListBuild ==
    /\ list.made = "none"
    /\ Len(nodes) < MaxListNodes
    /\ nodes' = BuildTemplate(nodes, NumericLiteral(DefaultMetadata, 10)).nodes
    /\ UNCHANGED <<cells, list, yielded, last, refs, map, guardVars>>

\* NodeList::new(lock)
ListNew ==
    /\ list.made = "none"
    /\ LET r == NodeListNew(cells)
       IN /\ cells' = r.cells
          /\ list' = [made |-> "new", input |-> <<>>,
                      handle |-> [head |-> r.head],
                      newCells |-> Len(r.cells) - Len(cells)]
    /\ UNCHANGED <<nodes, yielded, last, refs, map, guardVars>>

\* NodeList::from_iter(lock, input)
ListFromIter ==
    /\ list.made = "none"
    /\ \E input \in Inputs(nodes) :
         LET r == FromIter(cells, input)
         IN /\ cells' = r.cells
            /\ list' = [made |-> "from_iter", input |-> input,
                        handle |-> [head |-> r.head],
                        newCells |-> Len(r.cells) - Len(cells)]
    /\ UNCHANGED <<nodes, yielded, last, refs, map, guardVars>>

\* list.iter() run to its end: the handle is Copy, the cells are only read
ListIterate ==
    /\ list.made # "none"
    /\ last.op = "none"
    /\ Len(yielded) < MaxIter
    /\ yielded' = Append(yielded, Drain(cells, Iter(list.handle)))
    /\ UNCHANGED <<nodes, cells, list, last, refs, map, guardVars>>

\* list.visit_child_mut(ctx, visitor, path), for every visitor
ListVisitMut ==
    /\ list.made # "none"
    /\ last.op = "none"
    /\ yielded = <<>>
    /\ \E path \in Paths(nodes) :
       \E outs \in [1..ListLen(cells, list.handle) -> Outcomes(nodes)] :
         \E r \in {ListVisitChildMut(cells, list.handle, outs, path)} :
            /\ cells' = r.cells
            /\ last' = [op |-> "list_visit_child_mut", self |-> list.handle,
                        outs |-> outs, path |-> Some(path), ret |-> r.ret,
                        calls |-> r.calls,
                        newCells |-> Len(r.cells) - Len(cells),
                        newNodes |-> 0, before |-> cells]
    /\ UNCHANGED <<nodes, list, yielded, refs, map, guardVars>>

\* list.visit_child(ctx, visitor, path)
ListVisit ==
    /\ list.made # "none"
    /\ last.op = "none"
    /\ yielded = <<>>
    /\ \E path \in Paths(nodes) :
         last' = [NoCall EXCEPT !.op = "list_visit_child",
                                !.self = list.handle,
                                !.path = Some(path),
                                !.calls = ListVisitChild(cells, list.handle, path),
                                !.before = cells]
    /\ UNCHANGED <<nodes, cells, list, yielded, refs, map, guardVars>>

ListNext ==
    ListBuild \/ ListNew \/ ListFromIter \/ ListIterate \/ ListVisitMut \/ ListVisit

SpecList == Init /\ [][ListNext]_vars

----------------------------------------------------------------------------
(* The child specification: builder calls, then one mutating visit of a   *)
(* required child, of an optional child or of the root, for every visitor *)
(* outcome.                                                               *)

Templates ==
    {NumericLiteral(DefaultMetadata, 10),
     NumericLiteral([range |-> [file |-> 1, start |-> 2, end |-> 5]], 10)}

\* the Path of a child of another node
ChildPaths(ns, self) ==
    {Path(p, f) : p \in (1..Len(ns)) \ {self}, f \in NodeFields}

\* builder::NumericLiteral::build_template(lock, t)
Build ==
    /\ last.op = "none"
    /\ Len(nodes) < MaxNodes
    /\ \E t \in Templates : nodes' = BuildTemplate(nodes, t).nodes
    /\ UNCHANGED <<cells, list, yielded, last, refs, map, guardVars>>

Visited(op, self, out, path, r) ==
    [op |-> op, self |-> self, outs |-> <<out>>, path |-> path,
     ret |-> r.ret, calls |-> r.calls, newCells |-> 0,
     newNodes |-> Len(r.nodes) - Len(nodes), before |-> nodes]

\* child.visit_child_mut(ctx, visitor, path) on a required child
VisitRequired ==
    /\ last.op = "none"
    /\ \E self \in 1..Len(nodes) : \E path \in ChildPaths(nodes, self) :
       \E out \in Outcomes(nodes) :
         LET r == NodeVisitChildMut(nodes, self, out, path)
         IN /\ nodes' = r.nodes
            /\ last' = Visited("node_visit_child_mut", self, out, Some(path), r)
    /\ UNCHANGED <<cells, list, yielded, refs, map, guardVars>>

\* the optional children a field may hold
Optionals(ns) == {None} \cup {Some(n) : n \in 1..Len(ns)}

OptionPaths(ns, self) ==
    IF self = None THEN Paths(ns) ELSE ChildPaths(ns, self[1])

\* (&field).visit_child_mut(ctx, visitor, path) on an Option<&Node> field
VisitOptionRef ==
    /\ last.op = "none"
    /\ \E self \in Optionals(nodes) : \E path \in OptionPaths(nodes, self) :
       \E out \in Outcomes(nodes) :
         LET r == OptionRefVisitChildMut(nodes, self, out, path)
         IN /\ nodes' = r.nodes
            /\ last' = Visited("option_ref_visit_child_mut", self, out, Some(path), r)
    /\ UNCHANGED <<cells, list, yielded, refs, map, guardVars>>

\* field.visit_child_mut(ctx, visitor, path) on an Option<T> value
VisitOption ==
    /\ last.op = "none"
    /\ \E self \in Optionals(nodes) : \E path \in OptionPaths(nodes, self) :
       \E out \in Outcomes(nodes) :
         LET r == OptionVisitChildMut(nodes, self, out, path)
         IN /\ nodes' = r.nodes
            /\ last' = Visited("option_visit_child_mut", self, out, Some(path), r)
    /\ UNCHANGED <<cells, list, yielded, refs, map, guardVars>>

\* root.visit_mut(ctx, visitor, path): no path for a root without parent
VisitRoot ==
    /\ last.op = "none"
    /\ \E self \in 1..Len(nodes) :
       \E path \in {None} \cup {Some(p) : p \in ChildPaths(nodes, self)} :
       \E out \in Outcomes(nodes) :
         LET r == VisitMut(nodes, self, out, path)
         IN /\ nodes' = r.nodes
            /\ last' = Visited("visit_mut", self, out, path, r)
    /\ UNCHANGED <<cells, list, yielded, refs, map, guardVars>>

Next == Build \/ VisitRequired \/ VisitOptionRef \/ VisitOption \/ VisitRoot

Spec == Init /\ [][Next]_vars

----------------------------------------------------------------------------
(* The reference specification: the steps of tests::test_node_ref, in any *)
(* order and number: builder calls, copies of references, map inserts.    *)

RefTemplates ==
    {NumericLiteral(DefaultMetadata, 10), NumericLiteral(DefaultMetadata, 20)}

MapValues == {10, 20}

\* let n = NodePtr::from(builder::NumericLiteral::build_template(&lock, t))
RefBuild ==
    /\ Len(nodes) < MaxRefNodes
    /\ Len(refs) < MaxRefs
    /\ \E t \in RefTemplates :
         LET b == BuildTemplate(nodes, t)
         IN /\ nodes' = b.nodes
            /\ refs' = Append(refs, [ptr |-> NodePtrFrom(b.node),
                                     origin |-> Len(refs) + 1])
    /\ UNCHANGED <<cells, list, yielded, last, map, guardVars>>

\* let c = Box::new(n): a copy of a reference held
RefCopy ==
    /\ Len(refs) < MaxRefs
    /\ \E i \in DOMAIN refs :
         refs' = Append(refs, [ptr |-> refs[i].ptr, origin |-> refs[i].origin])
    /\ UNCHANGED <<nodes, cells, list, yielded, last, map, guardVars>>

\* m.insert(n, v)
RefInsert ==
    /\ \E i \in DOMAIN refs : \E v \in MapValues :
         /\ map' = MapInsert(nodes, map, refs[i].ptr, v)
         /\ last' = [NoCall EXCEPT !.op = "map_insert", !.self = i,
                                   !.outs = <<v>>, !.before = map]
    /\ UNCHANGED <<nodes, cells, list, yielded, refs, guardVars>>

RefNext == RefBuild \/ RefCopy \/ RefInsert

SpecRef == Init /\ [][RefNext]_vars

----------------------------------------------------------------------------
(* The lock specification: threads taking and dropping their GCLock. *)

\* GCLock::new(&mut ctx) on thread t
Acquire(t) ==
    /\ status[t] = "running"
    /\ acquired[t] < MaxAcquire
    /\ acquired' = [acquired EXCEPT ![t] = @ + 1]
    /\ LET r == GCLockNew(inUse[t])
       IN /\ last' = [NoCall EXCEPT !.op = "gclock_new", !.self = t,
                                    !.ret = r, !.before = held[t]]
          /\ IF r.tag = "Panic"
             THEN /\ status' = [status EXCEPT ![t] = "panicked"]
                  /\ UNCHANGED <<inUse, held>>
             ELSE /\ inUse' = [inUse EXCEPT ![t] = TRUE]
                  /\ held' = [held EXCEPT ![t] = @ + 1]
                  /\ UNCHANGED status
    /\ UNCHANGED <<nodes, cells, list, yielded, refs, map>>

\* drop(lock) on thread t
Release(t) ==
    /\ status[t] = "running"
    /\ held[t] > 0
    /\ held' = [held EXCEPT ![t] = @ - 1]
    /\ inUse' = [inUse EXCEPT ![t] = FALSE]
    /\ last' = [NoCall EXCEPT !.op = "gclock_drop", !.self = t,
                              !.before = held[t]]
    /\ UNCHANGED <<status, acquired, nodes, cells, list, yielded, refs, map>>

GuardNext == \E t \in Threads : Acquire(t) \/ Release(t)

SpecGuard == Init /\ [][GuardNext]_vars

----------------------------------------------------------------------------
(* Properties of the list specification. *)

\* what one element becomes under the visitor's outcome for it
Replacement(e, out) ==
    CASE out.tag = "Unchanged" -> <<e>>
      [] out.tag = "Removed" -> <<>>
      [] out.tag = "Changed" -> <<out.val>>
      [] out.tag = "Expanded" -> out.val

RECURSIVE Spliced(_, _, _)
\* the in-order concatenation of the replacements of elems[i..]
Spliced(elems, outs, i) ==
    IF i > Len(elems)
    THEN <<>>
    ELSE Replacement(elems[i], outs[i]) \o Spliced(elems, outs, i + 1)

ListVisited == last.op = "list_visit_child_mut"

SomeChange == \E i \in DOMAIN last.outs : last.outs[i].tag # "Unchanged"

\* C1: a mutating traversal of a list in which some element gets a
\* non-Unchanged outcome returns Changed(L'), and iterating L' yields the
\* in-order concatenation of each original element's replacement: the same
\* reference for Unchanged, nothing for Removed, n for Changed(n), ns in
\* order for Expanded(ns).
C1_SpliceInOrder ==
    (ListVisited /\ SomeChange) =>
        /\ last.ret.tag = "Changed"
        /\ Drain(cells, Iter(last.ret.val)) = Spliced(list.input, last.outs, 1)

\* [a, b, a] with b -> Expanded([a, b]) and the rest Unchanged gives
\* [a, a, b, a]
C1_Witness ==
    /\ ListVisited
    /\ list.input = <<1, 2, 1>>
    /\ last.outs = <<Unchanged, Expanded(<<1, 2>>), Unchanged>>
    /\ last.ret.tag = "Changed"
    /\ Drain(cells, Iter(last.ret.val)) = <<1, 1, 2, 1>>

\* C2: a mutating traversal whose visitor returns Unchanged for every
\* element of a list of any length reports Unchanged, allocates no list
\* cell and no node, and leaves the arena's cells and the handle as they were.
C2_NoChangeNoAllocation ==
    (ListVisited /\ ~SomeChange) =>
        /\ last.ret = Unchanged
        /\ last.newCells = 0
        /\ last.newNodes = 0
        /\ cells = last.before
        /\ last.self = list.handle

C2_Witness ==
    /\ ListVisited
    /\ ~SomeChange
    /\ Len(last.outs) = MaxLen
    /\ Len(last.calls) = MaxLen
    /\ last.ret = Unchanged

\* C8: iterating NodeList::from_iter(lock, [n1..nk]) yields n1..nk in order
\* and then ends, a second iteration of the handle yields the same
\* sequence, and len() is k.
C8_FromIterRoundTrip ==
    (list.made = "from_iter") =>
        /\ \A i \in DOMAIN yielded : yielded[i] = list.input
        /\ Drain(cells, Iter(list.handle)) = list.input
        /\ ListLen(cells, list.handle) = Len(list.input)

\* a list of full length with a repeated reference, iterated twice
C8_Witness ==
    /\ list.made = "from_iter"
    /\ list.input = <<1, 2, 1>>
    /\ Len(yielded) = 2
    /\ yielded[1] = <<1, 2, 1>>
    /\ yielded[2] = <<1, 2, 1>>

\* the lists the program holds: the one under test and a rebuilt one
Handles ==
    (IF list.made # "none" THEN {list.handle} ELSE {})
        \cup (IF ListVisited /\ last.ret.tag = "Changed" THEN {last.ret.val} ELSE {})

\* C10: NodeList::new allocates nothing and its list is empty; from_iter
\* allocates exactly one list cell per input element, so none for the empty
\* input, whose list is empty; for every list, is_empty() holds exactly when
\* len() is 0.
C10_AllocationPerElement ==
    /\ (list.made = "new") => (list.newCells = 0 /\ IsEmpty(list.handle))
    /\ (list.made = "from_iter") =>
          /\ list.newCells = Len(list.input)
          /\ (list.input = <<>>) => IsEmpty(list.handle)
    /\ \A h \in Handles : IsEmpty(h) <=> (ListLen(cells, h) = 0)

C10_Witness ==
    /\ list.made = "from_iter"
    /\ Len(list.input) = MaxLen
    /\ list.newCells = MaxLen
    /\ ~IsEmpty(list.handle)

----------------------------------------------------------------------------
(* Properties of the lock specification. *)

\* C3: no thread ever has two GCLocks alive: GCLock::new on a thread that
\* holds one panics and creates none, and on a thread that holds none (also
\* after dropping its previous lock) it succeeds.
C3_OneGuardPerThread ==
    /\ \A t \in Threads : held[t] <= 1 /\ (inUse[t] <=> held[t] = 1)
    /\ (last.op = "gclock_new") =>
          IF last.before >= 1
          THEN /\ last.ret.tag = "Panic"
               /\ status[last.self] = "panicked"
               /\ held[last.self] = last.before
          ELSE /\ last.ret.tag = "Return"
               /\ status[last.self] = "running"
               /\ held[last.self] = 1

\* one thread took a lock again after dropping its first, another panicked
\* on its second GCLock::new
C3_Witness ==
    /\ last.op = "gclock_new"
    /\ last.ret.tag = "Return"
    /\ acquired[last.self] = 2
    /\ held[last.self] = 1
    /\ \E u \in Threads : status[u] = "panicked" /\ held[u] = 1

----------------------------------------------------------------------------
(* Properties of the child specification. *)

OptionOps == {"option_ref_visit_child_mut", "option_visit_child_mut"}

\* the last call visited a child that is present and is not a list element
SingleChildVisited ==
    \/ last.op = "node_visit_child_mut"
    \/ (last.op \in OptionOps /\ last.self # None)

\* C4: returning Expanded for a required child or a present optional child
\* makes visit_child_mut panic: no TransformResult comes back.
C4_ExpandedOnSingleChildPanics ==
    (SingleChildVisited /\ last.outs[1].tag = "Expanded") =>
        last.ret.tag = "Panic"

\* C5: a required child whose visitor returns Removed becomes Changed(p), p
\* a newly allocated EmptyStatement in the child's file whose range starts
\* and ends at the child's range start; Unchanged and Changed(n) come back
\* as they are and nothing is allocated.
C5_RemovedRequiredChildPlaceholder ==
    (last.op = "node_visit_child_mut") =>
        LET out == last.outs[1]
            child == last.before[last.self]
        IN CASE out.tag = "Removed" ->
                  /\ last.ret.tag = "Changed"
                  /\ last.newNodes = 1
                  /\ last.ret.val = Len(last.before) + 1
                  /\ SubSeq(nodes, 1, Len(last.before)) = last.before
                  /\ nodes[last.ret.val].kind = "EmptyStatement"
                  /\ nodes[last.ret.val].range.file = child.range.file
                  /\ nodes[last.ret.val].range.start = child.range.start
                  /\ nodes[last.ret.val].range.end = child.range.start
             [] out.tag \in {"Unchanged", "Changed"} ->
                  /\ last.ret = out
                  /\ last.newNodes = 0
                  /\ nodes = last.before
             [] OTHER -> TRUE

\* a child of non-zero width removed
C5_Witness ==
    /\ last.op = "node_visit_child_mut"
    /\ last.outs[1].tag = "Removed"
    /\ nodes[last.self].range.start # nodes[last.self].range.end
    /\ last.ret.tag = "Changed"
    /\ nodes[last.ret.val].kind = "EmptyStatement"

\* C6: an absent optional child is not visited and gives Unchanged; a
\* present one gives Unchanged for Unchanged, Changed(present n) for
\* Changed(n), and for Removed the field is dropped: Changed(absent), with
\* no placeholder built.
C6_RemovedOptionalChildDropped ==
    (last.op \in OptionOps) =>
        IF last.self = None
        THEN last.calls = <<>> /\ last.ret = Unchanged
        ELSE LET out == last.outs[1]
             IN CASE out.tag = "Unchanged" -> last.ret = Unchanged
                  [] out.tag = "Changed" ->
                       /\ last.ret.tag = "Changed"
                       /\ last.ret.val = Some(out.val)
                  [] out.tag = "Removed" ->
                       /\ last.ret.tag = "Changed"
                       /\ last.ret.val = None
                       /\ last.newNodes = 0
                  [] OTHER -> TRUE

\* C7: Node::visit_mut calls the visitor once, on the root, with the path it
\* was given (none for a root without parent), and returns the root itself
\* for Unchanged, no tree for Removed, n for Changed(n), and panics for
\* Expanded.
C7_RootDriver ==
    (last.op = "visit_mut") =>
        LET out == last.outs[1]
        IN /\ last.calls = <<[node |-> last.self, path |-> last.path]>>
           /\ last.newNodes = 0
           /\ nodes = last.before
           /\ CASE out.tag = "Unchanged" ->
                     last.ret.tag = "Return" /\ last.ret.val = Some(last.self)
                [] out.tag = "Removed" ->
                     last.ret.tag = "Return" /\ last.ret.val = None
                [] out.tag = "Changed" ->
                     last.ret.tag = "Return" /\ last.ret.val = Some(out.val)
                [] out.tag = "Expanded" -> last.ret.tag = "Panic"

\* a root without parent removed: no tree, no placeholder
C7_Witness ==
    /\ last.op = "visit_mut"
    /\ last.path = None
    /\ last.outs[1].tag = "Removed"
    /\ last.ret.tag = "Return"
    /\ last.ret.val = None
    /\ Len(last.calls) = 1

----------------------------------------------------------------------------
(* Properties of the reference specification. *)

\* C9: node references are equal, and hash alike, exactly when they come
\* from the same builder call, whatever the templates were; a copy equals
\* its original; and after m.insert(k, v) the map returns v for k and for
\* every copy of k, and for every other reference what it returned before.
C9_IdentityEquality ==
    /\ \A i, j \in DOMAIN refs :
          /\ NodePtrEq(nodes, refs[i].ptr, refs[j].ptr)
                <=> (refs[i].origin = refs[j].origin)
          /\ NodePtrEq(nodes, refs[i].ptr, refs[j].ptr)
                => (NodePtrHash(nodes, refs[i].ptr) = NodePtrHash(nodes, refs[j].ptr))
    /\ (last.op = "map_insert") =>
          \A i \in DOMAIN refs :
             IF refs[i].origin = refs[last.self].origin
             THEN MapGet(nodes, map, refs[i].ptr) = Some(last.outs[1])
             ELSE MapGet(nodes, map, refs[i].ptr)
                     = MapGet(nodes, last.before, refs[i].ptr)

\* two nodes built from equal templates, a copy of the second, both keys in
\* the map with different values
C9_Witness ==
    /\ Len(refs) = 3
    /\ refs[1].origin # refs[2].origin
    /\ nodes[refs[1].ptr] = nodes[refs[2].ptr]
    /\ refs[3].origin = refs[2].origin
    /\ last.op = "map_insert"
    /\ MapGet(nodes, map, refs[1].ptr) = Some(10)
    /\ MapGet(nodes, map, refs[3].ptr) = Some(20)

----------------------------------------------------------------------------
(* Properties of the list traversals. *)

\* the addresses of the cells of the chain starting at ptr
RECURSIVE Chain(_, _)
Chain(cs, ptr) == IF ptr = NULL THEN {} ELSE {ptr} \cup Chain(cs, cs[ptr].next)

\* C11: the read-only and the mutating traversal of a list call the visitor
\* on every element of the original list exactly once, in list order, each
\* time with the same path, whatever the outcomes; nodes brought in by
\* Changed or Expanded are not visited, and an empty list gets no call.
C11_EveryElementVisitedOnce ==
    (last.op \in {"list_visit_child", "list_visit_child_mut"}) =>
        /\ Len(last.calls) = Len(list.input)
        /\ \A i \in DOMAIN last.calls :
              /\ last.calls[i].node = list.input[i]
              /\ last.calls[i].path = last.path

\* a first change followed by an element the visitor expands: the expanded
\* nodes get no call, the later elements do
C11_Witness ==
    /\ ListVisited
    /\ list.input = <<1, 2, 1>>
    /\ last.outs = <<Removed, Expanded(<<1, 2>>), Changed(2)>>
    /\ Len(last.calls) = 3
    /\ last.calls[3].node = 1

\* C12: a mutating traversal that changes a list leaves every existing cell
\* as it was: the rebuilt list is made only of cells allocated during the
\* rebuild, and the original handle still iterates as the original sequence.
C12_OldCellsUntouched ==
    (ListVisited /\ last.ret.tag = "Changed") =>
        /\ SubSeq(cells, 1, Len(last.before)) = last.before
        /\ \A c \in Chain(cells, last.ret.val.head) : c > Len(last.before)
        /\ Cardinality(Chain(cells, last.ret.val.head)) = last.newCells
        /\ Drain(cells, Iter(list.handle)) = list.input

\* a change behind an unchanged prefix, the rebuilt list not empty
C12_Witness ==
    /\ ListVisited
    /\ list.input = <<1, 2, 1>>
    /\ last.outs = <<Unchanged, Unchanged, Expanded(<<1, 2>>)>>
    /\ last.ret.tag = "Changed"
    /\ last.newCells = 4
    /\ Drain(cells, Iter(list.handle)) = <<1, 2, 1>>

====
